---- MODULE Spec2Model ----
(***************************************************************************)
(* Dataset repository backend: the curation workflow over the relational   *)
(* tables.  Every handler is an async function whose awaited database      *)
(* statements are its atomic steps; requests are served by processes whose *)
(* steps may interleave (Spec) or that run one request at a time (SeqSpec).*)
(***************************************************************************)
EXTENDS Integers, Sequences, FiniteSets, TLC

\* ---------------------------------------------------------------- bounds
NumProcs == 2
MaxUsers == 2
MaxDatasets == 1
MaxReviews == 2
MaxProfiles == 2
MaxClock == 1
NumSeeded == 2
MaxFiles == 2
MaxLineLen == 4
MaxRows == 22
MaxComments == 2
MaxItems == 2

\* ---------------------------------------------------------------- enums
userRoleEnum == {"viewer", "contributor", "curator", "admin"}
datasetStatusEnum == {"draft", "review", "approved", "published"}
curationReviewStatusEnum == {"pending", "approved", "rejected"}

Undefined == "undefined"
Null == "null"
\* An optional id that is not given; ids start at 1.
NoId == 0

Procs == 1..NumProcs
UserIds == 1..MaxUsers
DatasetIds == 1..MaxDatasets

VARIABLES
  users,            \* usersTable: row i has id i
  profiles,         \* profilesTable
  datasets,         \* datasetsTable
  curationReviews,  \* curationReviewsTable
  datasetFiles,     \* datasetFilesTable
  now,              \* the wall clock read by new Date() / defaultNow()
  pc,               \* per request process: the statement it is about to run
  input,            \* per request process: the handler and its parsed input
  dataset,          \* per request process: the rows returned by its selects
  result,           \* per request process: the value returned or error thrown
  before            \* SeqSpec: the tables when the call being served started

vars == <<users, profiles, datasets, curationReviews, datasetFiles, now, pc,
          input, dataset, result, before>>

tables == [users |-> users, profiles |-> profiles, datasets |-> datasets,
           curationReviews |-> curationReviews, datasetFiles |-> datasetFiles]

NoInput == [op |-> "none"]
NoRows == <<>>
NoTables == [users |-> <<>>, profiles |-> <<>>, datasets |-> <<>>,
             curationReviews |-> <<>>, datasetFiles |-> <<>>]

Idle(p) == pc[p] = "idle"
AllIdle == \A p \in Procs : Idle(p)
InFlight(op) == Cardinality({p \in Procs : input[p].op = op /\ pc[p] # "done"})

Init ==
  /\ users = <<>>
  /\ profiles = <<>>
  /\ datasets = <<>>
  /\ curationReviews = <<>>
  /\ datasetFiles = <<>>
  /\ now = 0
  /\ pc = [p \in Procs |-> "idle"]
  /\ input = [p \in Procs |-> NoInput]
  /\ dataset = [p \in Procs |-> NoRows]
  /\ result = [p \in Procs |-> "none"]
  /\ before = NoTables

\* A request arrives: the handler is entered with its validated input.  With
\* snap, the tables are recorded as they are when the call starts.
Call(p, in, first, snap) ==
  /\ Idle(p)
  /\ pc' = [pc EXCEPT ![p] = first]
  /\ input' = [input EXCEPT ![p] = in]
  /\ before' = IF snap THEN tables ELSE before
  /\ UNCHANGED <<users, datasetFiles, profiles, datasets, curationReviews, now, dataset, result>>

\* The handler returns a value (r = "ok") or rethrows an error from its catch.
Finish(p, r) ==
  /\ pc' = [pc EXCEPT ![p] = "done"]
  /\ result' = [result EXCEPT ![p] = r]

Goto(p, next) ==
  /\ pc' = [pc EXCEPT ![p] = next]
  /\ UNCHANGED result

\* The response is delivered and the process serves the next request.
Return(p) ==
  /\ pc[p] = "done"
  /\ pc' = [pc EXCEPT ![p] = "idle"]
  /\ input' = [input EXCEPT ![p] = NoInput]
  /\ dataset' = [dataset EXCEPT ![p] = NoRows]
  /\ result' = [result EXCEPT ![p] = "none"]
  /\ before' = NoTables
  /\ UNCHANGED <<users, datasetFiles, profiles, datasets, curationReviews, now>>

Tick ==
  /\ now < MaxClock
  /\ now' = now + 1
  /\ UNCHANGED <<users, datasetFiles, profiles, datasets, curationReviews, pc, input, dataset,
                 result, before>>

\* ------------------------------------------------------------ createUser
Emails == {"a@x", "b@x", "c@x"}

\* The addresses held by a user or being registered by a call.
takenEmails ==
  {users[i].email : i \in DOMAIN users} \cup
  {input[p].email : p \in {q \in Procs : input[q].op = "createUser"}}

\* An address that no user holds and no call is registering.
unusedEmail == {CHOOSE email \in Emails : email \notin takenEmails}

\* Mutant of uniqueEmail: the column without its unique() constraint.
uniqueEmail_Unconstrained(rows) == TRUE

\* usersTable.email is declared unique(): the database rejects a write that
\* would leave two rows with the same email.
uniqueEmail(rows) ==
  \A i, j \in DOMAIN rows : rows[i].email = rows[j].email => i = j

\* Passwords are the sequences of their characters; an update that gives no
\* password carries the empty one, which the input schema never admits.
Passwords == {<<"p">>, <<"q">>}
NoPassword == <<>>

\* Bun.password.hash with bcrypt, and the salted sha256 of updateUser: what is
\* stored is the digest behind the prefix of its scheme.  The random salt is
\* left out: no handler tells two digests of one password apart.
bcryptHash(password) == <<"$2b$10$">> \o password
sha256Hash(password) == <<"salt:">> \o password

\* Callers register without a name and with the first password.
CallCreateUser(p, snap, emails) ==
  /\ Len(users) + InFlight("createUser") < MaxUsers
  /\ \E role \in userRoleEnum, email \in emails :
       Call(p, [op |-> "createUser", role |-> role, email |-> email,
                password |-> <<"p">>, name |-> Null],
            "createUser.select", snap)

existingUsers(email) == {i \in DOMAIN users : users[i].email = email}

CreateUser_Select(p) ==
  /\ pc[p] = "createUser.select"
  /\ IF existingUsers(input[p].email) # {}
       THEN Finish(p, "Conflict")
       ELSE Goto(p, "createUser.insert")
  /\ UNCHANGED <<users, profiles, datasets, curationReviews, datasetFiles, now,
                 input, dataset, before>>

\* The row is inserted with the role and email the caller asked for; a
\* violation of the unique constraint is rethrown by the catch block.
CreateUser_Insert(p) ==
  /\ pc[p] = "createUser.insert"
  /\ LET rows == Append(users, [role |-> input[p].role, email |-> input[p].email,
                                 password |-> bcryptHash(input[p].password),
                                 name |-> input[p].name])
     IN IF uniqueEmail(rows)
          THEN users' = rows /\ Finish(p, "ok")
          ELSE UNCHANGED users /\ Finish(p, "DatabaseError")
  /\ UNCHANGED <<profiles, datasets, curationReviews, datasetFiles, now, input,
                 dataset, before>>

\* ------------------------------------------------------------ updateUser
CallUpdateUser(p, snap, emails, passwords) ==
  /\ Idle(p)
  /\ \E id \in UserIds, role \in userRoleEnum \cup {Undefined}, email \in emails,
        password \in passwords :
       Call(p, [op |-> "updateUser", id |-> id, role |-> role, email |-> email,
                password |-> password],
            "updateUser.select", snap)

\* The email check is entered when an email is given that differs from the one
\* of the row just read.
UpdateUser_Select(p) ==
  /\ pc[p] = "updateUser.select"
  /\ IF input[p].id \notin DOMAIN users
       THEN Finish(p, "NotFound")
       ELSE IF /\ input[p].email # Undefined
               /\ input[p].email # users[input[p].id].email
         THEN Goto(p, "updateUser.selectEmail")
         ELSE Goto(p, "updateUser.update")
  /\ UNCHANGED <<users, profiles, datasets, curationReviews, datasetFiles, now,
                 input, dataset, before>>

emailExists(email, id) ==
  {i \in DOMAIN users : users[i].email = email /\ i # id}

UpdateUser_SelectEmail(p) ==
  /\ pc[p] = "updateUser.selectEmail"
  /\ IF emailExists(input[p].email, input[p].id) # {}
       THEN Finish(p, "Conflict")
       ELSE Goto(p, "updateUser.update")
  /\ UNCHANGED <<users, profiles, datasets, curationReviews, datasetFiles, now,
                 input, dataset, before>>

\* updateValues: every column only when provided.
updateValues(row, in) ==
  [row EXCEPT !.email = IF in.email # Undefined THEN in.email ELSE @,
              !.role = IF in.role # Undefined THEN in.role ELSE @,
              !.password = IF in.password # NoPassword
                             THEN sha256Hash(in.password) ELSE @]

UpdateUser_Update(p) ==
  /\ pc[p] = "updateUser.update"
  /\ LET rows == [users EXCEPT ![input[p].id] = updateValues(@, input[p])]
     IN IF uniqueEmail(rows)
          THEN users' = rows /\ Finish(p, "ok")
          ELSE UNCHANGED users /\ Finish(p, "DatabaseError")
  /\ UNCHANGED <<profiles, datasets, curationReviews, datasetFiles, now, input,
                 dataset, before>>

\* ------------------------------------------------------ authenticateUser
\* A caller logs in with a password or with a stored digest that it has read.
CallAuthenticateUser(p, snap) ==
  /\ Idle(p)
  /\ \E email \in Emails,
        password \in Passwords \cup {users[i].password : i \in DOMAIN users} :
       Call(p, [op |-> "authenticateUser", email |-> email,
                password |-> password],
            "authenticateUser.select", snap)

\* The stored password column is compared with the password of the input as
\* it is; the user is returned without the column.
AuthenticateUser_Select(p) ==
  /\ pc[p] = "authenticateUser.select"
  /\ LET found == existingUsers(input[p].email)
         user == users[CHOOSE i \in found : TRUE]
     IN IF found = {} THEN Finish(p, [returned |-> "null"])
          ELSE IF user.password # input[p].password
            THEN Finish(p, [returned |-> "null"])
            ELSE Finish(p, [returned |-> "user", email |-> user.email,
                            role |-> user.role, name |-> user.name])
  /\ UNCHANGED <<users, profiles, datasets, curationReviews, datasetFiles, now,
                 input, dataset, before>>

\* ----------------------------------------------------- getDashboardStats
\* The clock counts days; thirtyDaysAgo is computed when the handler starts.
CallGetDashboardStats(p, snap) ==
  /\ Idle(p)
  /\ Call(p, [op |-> "getDashboardStats", thirtyDaysAgo |-> now - 30],
          "getDashboardStats.totalDatasets", snap)

\* The seven counts, each a statement of its own on the tables as they are when
\* it runs; the rows of the counts already made are kept by the process, and
\* the last count is followed by the return of the snapshot.
GetDashboardStats_Select(p) ==
  LET selects == <<"getDashboardStats.totalDatasets",
                   "getDashboardStats.publishedDatasets",
                   "getDashboardStats.datasetsInReview",
                   "getDashboardStats.totalContributors",
                   "getDashboardStats.totalCurators",
                   "getDashboardStats.recentSubmissions",
                   "getDashboardStats.pendingReviews">>
      datasetsWhere(status) == {i \in DOMAIN datasets : datasets[i].status = status}
      usersWhere(role) == {i \in DOMAIN users : users[i].role = role}
      counts == <<DOMAIN datasets,
                  datasetsWhere("published"),
                  datasetsWhere("review"),
                  usersWhere("contributor"),
                  usersWhere("curator"),
                  {i \in DOMAIN datasets :
                     datasets[i].created_at >= input[p].thirtyDaysAgo},
                  {i \in DOMAIN curationReviews :
                     curationReviews[i].status = "pending"}>>
  IN \E k \in DOMAIN selects :
       /\ pc[p] = selects[k]
       /\ LET rows == Append(dataset[p], [count |-> Cardinality(counts[k])])
          IN /\ dataset' = [dataset EXCEPT ![p] = rows]
             /\ IF k < Len(selects)
                  THEN Goto(p, selects[k + 1])
                  ELSE Finish(p, [totalDatasets |-> rows[1].count,
                                  publishedDatasets |-> rows[2].count,
                                  datasetsInReview |-> rows[3].count,
                                  totalContributors |-> rows[4].count,
                                  totalCurators |-> rows[5].count,
                                  recentSubmissions |-> rows[6].count,
                                  pendingReviews |-> rows[7].count])
       /\ UNCHANGED <<users, profiles, datasets, curationReviews, datasetFiles,
                      now, input, before>>

\* --------------------------------------------------------- createProfile
CallCreateProfile(p, snap) ==
  /\ Len(profiles) + InFlight("createProfile") < MaxProfiles
  /\ \E user_id \in UserIds :
       Call(p, [op |-> "createProfile", user_id |-> user_id,
                type |-> "lecturer", department |-> "CS"],
            "createProfile.selectUser", snap)

CreateProfile_SelectUser(p) ==
  /\ pc[p] = "createProfile.selectUser"
  /\ IF input[p].user_id \notin DOMAIN users
       THEN Finish(p, "NotFound")
       ELSE Goto(p, "createProfile.selectProfile")
  /\ UNCHANGED <<users, datasetFiles, profiles, datasets, curationReviews, now, input, dataset, before>>

existingProfile(user_id) ==
  {i \in DOMAIN profiles : profiles[i].user_id = user_id}

CreateProfile_SelectProfile(p) ==
  /\ pc[p] = "createProfile.selectProfile"
  /\ IF existingProfile(input[p].user_id) # {}
       THEN Finish(p, "Conflict")
       ELSE Goto(p, "createProfile.insert")
  /\ UNCHANGED <<users, datasetFiles, profiles, datasets, curationReviews, now, input, dataset, before>>

\* profilesTable declares no unique constraint on user_id: the insert always succeeds.
CreateProfile_Insert(p) ==
  /\ pc[p] = "createProfile.insert"
  /\ profiles' = Append(profiles,
       [user_id |-> input[p].user_id, type |-> input[p].type,
        department |-> input[p].department])
  /\ Finish(p, "ok")
  /\ UNCHANGED <<users, datasetFiles, datasets, curationReviews, now, input, dataset, before>>

\* --------------------------------------------------------- createDataset
\* Mutant of validRoles: every role may submit datasets.
validRoles_Everyone == userRoleEnum

validRoles == {"contributor", "curator", "admin"}

\* createDatasetInputSchema: status is datasetStatusEnum.default('draft').
createDatasetInputSchema(raw) ==
  [raw EXCEPT !.status = IF raw.status = Undefined THEN "draft" ELSE raw.status]

\* The datasets of the workflow are all submitted with the same title and
\* without a DOI.
CallCreateDataset(p, snap) ==
  /\ Len(datasets) + InFlight("createDataset") < MaxDatasets
  /\ \E contributor_id \in UserIds, status \in datasetStatusEnum \cup {Undefined} :
       Call(p, createDatasetInputSchema(
                 [op |-> "createDataset", contributor_id |-> contributor_id,
                  status |-> status, title |-> "T", doi |-> Null,
                  publication_year |-> 2024]),
            "createDataset.selectContributor", snap)

CreateDataset_SelectContributor(p) ==
  /\ pc[p] = "createDataset.selectContributor"
  /\ IF input[p].contributor_id \notin DOMAIN users
       THEN Finish(p, "NotFound")
       ELSE IF users[input[p].contributor_id].role \notin validRoles
         THEN Finish(p, "PermissionDenied")
         ELSE Goto(p, "createDataset.insert")
  /\ UNCHANGED <<users, datasetFiles, profiles, datasets, curationReviews, now, input, dataset, before>>

\* The status column of the inserted row.
createDatasetStatus(in) == in.status

CreateDataset_Insert(p) ==
  /\ pc[p] = "createDataset.insert"
  /\ datasets' = Append(datasets,
       [status |-> createDatasetStatus(input[p]),
        contributor_id |-> input[p].contributor_id,
        updated_at |-> now,
        created_at |-> now,
        title |-> input[p].title,
        doi |-> input[p].doi,
        publication_year |-> input[p].publication_year])
  /\ Finish(p, "ok")
  /\ UNCHANGED <<users, datasetFiles, profiles, curationReviews, now, input, dataset, before>>

\* --------------------------------------------------------- updateDataset
Titles == {"T", "U"}
Dois == {Null, "10.1/x"}

\* The inputs that overwrite the status or nothing, as the workflow issues them.
StatusPatches ==
  [op : {"updateDataset"}, id : DatasetIds,
   status : datasetStatusEnum \cup {Undefined},
   title : {Undefined}, doi : {Undefined}, contributor_id : {NoId}]

CallUpdateDataset(p, snap, patches) ==
  /\ Idle(p)
  /\ \E patch \in patches : Call(p, patch, "updateDataset.select", snap)

UpdateDataset_Select(p) ==
  /\ pc[p] = "updateDataset.select"
  /\ IF input[p].id \notin DOMAIN datasets
       THEN Finish(p, "NotFound")
       ELSE Goto(p, "updateDataset.update")
  /\ UNCHANGED <<users, profiles, datasets, curationReviews, datasetFiles, now,
                 input, dataset, before>>

\* Mutant of updateData: a status that is given is written only when it is the
\* successor of the current one in the workflow.
updateData_Guarded(row, in) ==
  [row EXCEPT !.updated_at = now,
              !.title = IF in.title # Undefined THEN in.title ELSE @,
              !.doi = IF in.doi # Undefined THEN in.doi ELSE @,
              !.status = IF in.status # Undefined /\
                            <<@, in.status>> \in {<<"draft", "review">>,
                                                  <<"review", "approved">>,
                                                  <<"approved", "published">>}
                           THEN in.status ELSE @,
              !.contributor_id =
                 IF in.contributor_id # NoId THEN in.contributor_id ELSE @]

\* Mutant of updateData: an explicit null for doi is taken as "not provided".
updateData_NullIsAbsent(row, in) ==
  [row EXCEPT !.updated_at = now,
              !.title = IF in.title # Undefined THEN in.title ELSE @,
              !.doi = IF in.doi # Undefined /\ in.doi # Null THEN in.doi ELSE @,
              !.status = IF in.status # Undefined THEN in.status ELSE @,
              !.contributor_id =
                 IF in.contributor_id # NoId THEN in.contributor_id ELSE @]

\* updateData: updated_at always, every other column only when provided.
updateData(row, in) ==
  [row EXCEPT !.updated_at = now,
              !.title = IF in.title # Undefined THEN in.title ELSE @,
              !.doi = IF in.doi # Undefined THEN in.doi ELSE @,
              !.status = IF in.status # Undefined THEN in.status ELSE @,
              !.contributor_id =
                 IF in.contributor_id # NoId THEN in.contributor_id ELSE @]

\* datasetsTable.contributor_id references usersTable.id: the database rejects
\* a row whose contributor is not a user.
contributorExists(row) == row.contributor_id \in DOMAIN users

UpdateDataset_Update(p) ==
  /\ pc[p] = "updateDataset.update"
  /\ LET row == updateData(datasets[input[p].id], input[p])
     IN IF contributorExists(row)
          THEN datasets' = [datasets EXCEPT ![input[p].id] = row] /\ Finish(p, "ok")
          ELSE UNCHANGED datasets /\ Finish(p, "DatabaseError")
  /\ UNCHANGED <<users, profiles, curationReviews, datasetFiles, now, input,
                 dataset, before>>

\* ------------------------------------------------------ generateCitation
\* What || and ?: take for true among the values of a nullable text column.
truthy(value) == value \notin {Undefined, Null, ""}

\* The citations as the sequence of the pieces of their template literals:
\* the fixed texts, and the interpolated values, a year written in decimal.
generateCitation_NoFallback(dataset_, contributorResult) ==
  LET authorName == IF contributorResult # <<>> /\ truthy(contributorResult[1].name)
                      THEN contributorResult[1].name ELSE "Unknown Author"
      doiUrl == IF truthy(dataset_.doi)
                  THEN <<"https://doi.org/", dataset_.doi>> ELSE <<>>
  IN [apa |-> <<authorName, ". (", dataset_.publication_year, "). ",
                dataset_.title, " [Dataset]. ">>
              \o (IF doiUrl # <<>> THEN doiUrl ELSE <<"Unimus Repository">>)
              \o <<".">>,
      ieee |-> <<authorName, ", \"", dataset_.title, ",\" Dataset, ",
                 dataset_.publication_year, ".">>
               \o (IF doiUrl # <<>> THEN <<" [Online]. Available: ">> \o doiUrl
                                    ELSE <<" [Database]">>)]

generateCitation(dataset_, contributorResult) ==
  LET name == IF contributorResult = <<>> THEN Undefined
                ELSE contributorResult[1].name
      email == IF contributorResult = <<>> THEN Undefined
                 ELSE contributorResult[1].email
      authorName == IF truthy(name) THEN name
                      ELSE IF truthy(email) THEN email ELSE "Unknown Author"
      doiUrl == IF truthy(dataset_.doi)
                  THEN <<"https://doi.org/", dataset_.doi>> ELSE <<>>
  IN [apa |-> <<authorName, ". (", dataset_.publication_year, "). ",
                dataset_.title, " [Dataset]. ">>
              \o (IF doiUrl # <<>> THEN doiUrl ELSE <<"Unimus Repository">>)
              \o <<".">>,
      ieee |-> <<authorName, ", \"", dataset_.title, ",\" Dataset, ",
                 dataset_.publication_year, ".">>
               \o (IF doiUrl # <<>> THEN <<" [Online]. Available: ">> \o doiUrl
                                    ELSE <<" [Database]">>)]

\* The dataset is handed in by the caller; its contributor may be no user.
CallGenerateCitation(p, snap) ==
  /\ Idle(p)
  /\ \E contributor_id \in 1..(MaxUsers + 1), doi \in Dois \cup {""},
        title \in Titles, publication_year \in {2022, 2024} :
       Call(p, [op |-> "generateCitation",
                dataset |-> [contributor_id |-> contributor_id, doi |-> doi,
                             title |-> title,
                             publication_year |-> publication_year]],
            "generateCitation.select", snap)

GenerateCitation_Select(p) ==
  /\ pc[p] = "generateCitation.select"
  /\ LET id == input[p].dataset.contributor_id
         contributorResult == IF id \in DOMAIN users THEN <<users[id]>> ELSE <<>>
     IN Finish(p, generateCitation(input[p].dataset, contributorResult))
  /\ UNCHANGED <<users, profiles, datasets, curationReviews, datasetFiles, now,
                 input, dataset, before>>

\* ------------------------------------------------------- generateReports
\* The base conditions on a dataset row; a filter that is given is a sequence
\* of one value, a filter that is not given the empty sequence.
conditions_ProfileType(filters, row) ==
  /\ filters.start_year = <<>> \/ row.publication_year >= filters.start_year[1]
  /\ filters.end_year = <<>> \/ row.publication_year <= filters.end_year[1]
  /\ filters.contributor_id = <<>> \/ row.contributor_id = filters.contributor_id[1]
  /\ \/ filters.profile_type = Undefined
     \/ \E j \in DOMAIN profiles : /\ profiles[j].user_id = row.contributor_id
                                   /\ profiles[j].type = filters.profile_type

conditions(filters, row) ==
  /\ filters.start_year = <<>> \/ row.publication_year >= filters.start_year[1]
  /\ filters.end_year = <<>> \/ row.publication_year <= filters.end_year[1]
  /\ filters.contributor_id = <<>> \/ row.contributor_id = filters.contributor_id[1]

\* The five queries and the report made of them.  A joined row is a pair of a
\* dataset and a profile of its contributor, with 0 for the missing profile of
\* a left join; the groups ordered by count are given as a set.
generateReports(filters) ==
  LET matching == {i \in DOMAIN datasets : conditions(filters, datasets[i])}
      years == {datasets[i].publication_year : i \in matching}
      ordered == CHOOSE seq \in [1..Cardinality(years) -> years] :
                   \A i, j \in DOMAIN seq : i < j => seq[i] < seq[j]
      profilesOf(i) ==
        {j \in DOMAIN profiles : profiles[j].user_id = datasets[i].contributor_id}
      innerJoin == {<<i, j>> \in matching \X DOMAIN profiles : j \in profilesOf(i)}
      leftJoin == innerJoin \cup {<<i, 0>> : i \in {k \in matching : profilesOf(k) = {}}}
      profileConditions(j) ==
        /\ filters.profile_type = Undefined
             \/ (j # 0 /\ profiles[j].type = filters.profile_type)
        /\ filters.department = Undefined
             \/ (j # 0 /\ profiles[j].department = filters.department)
      byContributor == {r \in leftJoin : profileConditions(r[2])}
      byStudent == {r \in innerJoin : profiles[r[2]].type = "student"}
      byDepartment == {r \in innerJoin : profileConditions(r[2])}
      coalesce(name, email) == IF name # Null THEN name ELSE email
  IN [totalDatasets |-> Cardinality(matching),
      datasetsByYear |->
        [k \in DOMAIN ordered |->
           [year |-> ordered[k],
            count |-> Cardinality({i \in matching :
                                     datasets[i].publication_year = ordered[k]})]],
      datasetsByContributor |->
        {[contributorId |-> id,
          contributorName |-> coalesce(users[id].name, users[id].email),
          count |-> Cardinality({r \in byContributor :
                                   datasets[r[1]].contributor_id = id})] :
           id \in {datasets[r[1]].contributor_id : r \in byContributor}},
      studentInvolvement |->
        [studentContributors |->
           Cardinality({datasets[r[1]].contributor_id : r \in byStudent}),
         totalStudentDatasets |-> Cardinality(byStudent)],
      departmentBreakdown |->
        {[department |-> department,
          count |-> Cardinality({r \in byDepartment :
                                   profiles[r[2]].department = department})] :
           department \in {profiles[r[2]].department : r \in byDepartment}}]

CallGenerateReports(p, snap) ==
  /\ Idle(p)
  /\ \E start_year \in {<<>>, <<2023>>}, end_year \in {<<>>, <<2023>>},
        contributor_id \in {<<>>} \cup {<<id>> : id \in UserIds},
        profile_type \in {Undefined, "lecturer", "student"},
        department \in {Undefined, "CS", "EE"} :
       Call(p, [op |-> "generateReports", start_year |-> start_year,
                end_year |-> end_year, contributor_id |-> contributor_id,
                profile_type |-> profile_type, department |-> department],
            "generateReports.select", snap)

GenerateReports_Select(p) ==
  /\ pc[p] = "generateReports.select"
  /\ Finish(p, generateReports(input[p]))
  /\ UNCHANGED <<users, profiles, datasets, curationReviews, datasetFiles, now,
                 input, dataset, before>>

\* -------------------------------------------------- createCurationReview
CallCreateCurationReview(p, snap) ==
  /\ Len(curationReviews) + InFlight("createCurationReview") < MaxReviews
  /\ \E dataset_id \in DatasetIds, reviewer_id \in UserIds,
        status \in curationReviewStatusEnum :
       Call(p, [op |-> "createCurationReview", dataset_id |-> dataset_id,
                reviewer_id |-> reviewer_id, status |-> status],
            "createCurationReview.selectReviewer", snap)

CreateCurationReview_SelectReviewer(p) ==
  /\ pc[p] = "createCurationReview.selectReviewer"
  /\ IF input[p].reviewer_id \notin DOMAIN users
       THEN Finish(p, "NotFound")
       ELSE IF users[input[p].reviewer_id].role \notin {"curator", "admin"}
         THEN Finish(p, "PermissionDenied")
         ELSE Goto(p, "createCurationReview.selectDataset")
  /\ UNCHANGED <<users, datasetFiles, profiles, datasets, curationReviews, now, input, dataset, before>>

\* The rows of the select are kept in the local `dataset` for the rest of the call.
CreateCurationReview_SelectDataset(p) ==
  /\ pc[p] = "createCurationReview.selectDataset"
  /\ IF input[p].dataset_id \notin DOMAIN datasets
       THEN /\ Finish(p, "NotFound")
            /\ UNCHANGED dataset
       ELSE /\ Goto(p, "createCurationReview.selectExisting")
            /\ dataset' = [dataset EXCEPT ![p] = <<datasets[input[p].dataset_id]>>]
  /\ UNCHANGED <<users, datasetFiles, profiles, datasets, curationReviews, now, input, before>>

\* Mutant of existingReview: any review of the dataset counts, whoever filed it.
existingReview_AnyReviewer(dataset_id, reviewer_id) ==
  {i \in DOMAIN curationReviews : curationReviews[i].dataset_id = dataset_id}

\* Mutant of existingReview: the check for an earlier review finds nothing.
existingReview_Never(dataset_id, reviewer_id) == {}

existingReview(dataset_id, reviewer_id) ==
  {i \in DOMAIN curationReviews :
     /\ curationReviews[i].dataset_id = dataset_id
     /\ curationReviews[i].reviewer_id = reviewer_id}

\* Mutant of CreateCurationReview_SelectExisting: the review is inserted
\* before the earlier review is looked for.
CreateCurationReview_SelectExisting_InsertsFirst(p) ==
  /\ pc[p] = "createCurationReview.selectExisting"
  /\ IF existingReview(input[p].dataset_id, input[p].reviewer_id) # {}
       THEN /\ Finish(p, "Conflict")
            /\ curationReviews' = Append(curationReviews,
                 [dataset_id |-> input[p].dataset_id,
                  reviewer_id |-> input[p].reviewer_id, status |-> input[p].status])
       ELSE Goto(p, "createCurationReview.insert") /\ UNCHANGED curationReviews
  /\ UNCHANGED <<users, datasetFiles, profiles, datasets, now, input, dataset, before>>

CreateCurationReview_SelectExisting(p) ==
  /\ pc[p] = "createCurationReview.selectExisting"
  /\ IF existingReview(input[p].dataset_id, input[p].reviewer_id) # {}
       THEN Finish(p, "Conflict")
       ELSE Goto(p, "createCurationReview.insert")
  /\ UNCHANGED <<users, datasetFiles, profiles, datasets, curationReviews, now, input, dataset, before>>

\* Mutants of newDatasetStatus: approval without the check of the current status;
\* rejection that leaves the status alone; approval that advances an approved
\* dataset to the next state; every outcome but approval treated as rejection.
newDatasetStatus_ApproveAny(current, reviewStatus) ==
  IF reviewStatus = "approved" THEN "approved"
    ELSE IF reviewStatus = "rejected" THEN "draft" ELSE current

newDatasetStatus_RejectKeeps(current, reviewStatus) ==
  IF reviewStatus = "approved"
    THEN (IF current = "review" THEN "approved" ELSE current)
    ELSE current

newDatasetStatus_ApproveAdvances(current, reviewStatus) ==
  IF reviewStatus = "approved"
    THEN (IF current = "review" THEN "approved"
            ELSE IF current = "approved" THEN "published" ELSE current)
    ELSE IF reviewStatus = "rejected" THEN "draft" ELSE current

newDatasetStatus_ElseDraft(current, reviewStatus) ==
  IF reviewStatus = "approved"
    THEN (IF current = "review" THEN "approved" ELSE current)
    ELSE "draft"

\* The status the dataset is to get, from the status read and the review outcome.
newDatasetStatus(current, reviewStatus) ==
  IF reviewStatus = "approved"
    THEN (IF current = "review" THEN "approved" ELSE current)
    ELSE IF reviewStatus = "rejected" THEN "draft" ELSE current

\* Mutant of statusChanged: the dataset is written whatever the outcome.
statusChanged_Always(new, current) == TRUE

\* "Update dataset status if it changed".
statusChanged(new, current) == new # current

\* curationReviewsTable declares no unique constraint on (dataset_id,
\* reviewer_id): the insert always succeeds.
CreateCurationReview_Insert(p) ==
  /\ pc[p] = "createCurationReview.insert"
  /\ curationReviews' = Append(curationReviews,
       [dataset_id |-> input[p].dataset_id, reviewer_id |-> input[p].reviewer_id,
        status |-> input[p].status])
  /\ IF statusChanged(newDatasetStatus(dataset[p][1].status, input[p].status),
                      dataset[p][1].status)
       THEN Goto(p, "createCurationReview.update")
       ELSE Finish(p, "ok")
  /\ UNCHANGED <<users, datasetFiles, profiles, datasets, now, input, dataset, before>>

CreateCurationReview_Update(p) ==
  /\ pc[p] = "createCurationReview.update"
  /\ datasets' = [datasets EXCEPT ![input[p].dataset_id] =
       [@ EXCEPT !.status = newDatasetStatus(dataset[p][1].status, input[p].status),
                 !.updated_at = now]]
  /\ Finish(p, "ok")
  /\ UNCHANGED <<users, datasetFiles, profiles, curationReviews, now, input, dataset, before>>

\* ------------------------------------------------------ createDatasetFile
\* A string that is inspected letter by letter is the sequence of its
\* characters.
UpperCase ==
  [A |-> "a", B |-> "b", C |-> "c", D |-> "d", E |-> "e", F |-> "f", G |-> "g",
   H |-> "h", I |-> "i", J |-> "j", K |-> "k", L |-> "l", M |-> "m", N |-> "n",
   O |-> "o", P |-> "p", Q |-> "q", R |-> "r", S |-> "s", T |-> "t", U |-> "u",
   V |-> "v", W |-> "w", X |-> "x", Y |-> "y", Z |-> "z"]

toLowerCase(s) ==
  [i \in DOMAIN s |-> IF s[i] \in DOMAIN UpperCase THEN UpperCase[s[i]] ELSE s[i]]

ALLOWED_FILE_TYPES ==
  {<<"c", "s", "v">>, <<"j", "s", "o", "n">>, <<"a", "r", "f", "f">>}

\* Mutant of MAX_FILE_SIZE: the limit itself is refused.
MAX_FILE_SIZE_Exclusive == 100 * 1024 * 1024 - 1

MAX_FILE_SIZE == 100 * 1024 * 1024

\* The declared types and sizes that uploads are recorded with.
FileTypes ==
  {<<"c", "s", "v">>, <<"C", "S", "V">>, <<"J", "s", "o", "n">>,
   <<"A", "R", "F", "F">>, <<"t", "x", "t">>, <<"P", "D", "F">>}

FileSizes == {-1, 0, MAX_FILE_SIZE, MAX_FILE_SIZE + 1}

\* The handler is entered with its input as given, as its callers in the test
\* suite enter it.
CallCreateDatasetFile(p, snap) ==
  /\ Len(datasetFiles) + InFlight("createDatasetFile") < MaxFiles
  /\ \E dataset_id \in DatasetIds, size \in FileSizes, type \in FileTypes :
       Call(p, [op |-> "createDatasetFile", dataset_id |-> dataset_id,
                size |-> size, type |-> type],
            "createDatasetFile.select", snap)

\* The validation of type and size, then the select of the dataset.
CreateDatasetFile_Select(p) ==
  /\ pc[p] = "createDatasetFile.select"
  /\ IF toLowerCase(input[p].type) \notin ALLOWED_FILE_TYPES
       THEN Finish(p, "ValidationError")
       ELSE IF input[p].size > MAX_FILE_SIZE
         THEN Finish(p, "ValidationError")
         ELSE IF input[p].size < 0
           THEN Finish(p, "ValidationError")
           ELSE IF input[p].dataset_id \notin DOMAIN datasets
             THEN Finish(p, "NotFound")
             ELSE Goto(p, "createDatasetFile.insert")
  /\ UNCHANGED <<users, profiles, datasets, curationReviews, datasetFiles, now,
                 input, dataset, before>>

CreateDatasetFile_Insert(p) ==
  /\ pc[p] = "createDatasetFile.insert"
  /\ datasetFiles' = Append(datasetFiles,
       [dataset_id |-> input[p].dataset_id, size |-> input[p].size,
        type |-> input[p].type])
  /\ Finish(p, "ok")
  /\ UNCHANGED <<users, profiles, datasets, curationReviews, now, input, dataset,
                 before>>

\* ----------------------------------------------------- previewDatasetFile
\* Strings of the standard library, on sequences of characters.
Whitespace == {" ", "\t", "\n", "\r"}
Digits == {"0", "1", "2", "3", "4", "5", "6", "7", "8", "9"}

MinOf(S) == CHOOSE x \in S : \A y \in S : x <= y
MaxOf(S) == CHOOSE x \in S : \A y \in S : x >= y

charAt(s, i) == IF i \in DOMAIN s THEN s[i] ELSE ""

trimStart(s) ==
  LET keep == {i \in DOMAIN s : s[i] \notin Whitespace}
  IN IF keep = {} THEN <<>> ELSE SubSeq(s, MinOf(keep), Len(s))

trim(s) ==
  LET keep == {i \in DOMAIN s : s[i] \notin Whitespace}
  IN IF keep = {} THEN <<>> ELSE SubSeq(s, MinOf(keep), MaxOf(keep))

startsWith(s, prefix) ==
  Len(s) >= Len(prefix) /\ SubSeq(s, 1, Len(prefix)) = prefix

\* s.split(sep) for a one-character separator.
RECURSIVE split(_, _)
split(s, sep) ==
  LET at == {i \in DOMAIN s : s[i] = sep}
  IN IF at = {} THEN <<s>>
       ELSE <<SubSeq(s, 1, MinOf(at) - 1)>> \o
            split(SubSeq(s, MinOf(at) + 1, Len(s)), sep)

\* s.split(/\s+/) for a string without leading or trailing whitespace.
RECURSIVE splitWhitespace(_)
splitWhitespace(s) ==
  LET at == {i \in DOMAIN s : s[i] \in Whitespace}
  IN IF at = {} THEN <<s>>
       ELSE <<SubSeq(s, 1, MinOf(at) - 1)>> \o
            splitWhitespace(trimStart(SubSeq(s, MinOf(at), Len(s))))

\* array.slice(start, end) and array.slice(start), with indexes from 0.
slice(array, start, end) ==
  SubSeq(array, start + 1, IF end < Len(array) THEN end ELSE Len(array))

sliceFrom(array, start) == SubSeq(array, start + 1, Len(array))

\* array.findIndex(test), -1 when no element passes; hits is the set of the
\* positions (from 1) of the elements that pass.
findIndex(hits) == IF hits = {} THEN -1 ELSE MinOf(hits) - 1

\* s.replace(/^q|q$/g, ''): one leading and one trailing q are removed.
stripQuotes(s, q) ==
  LET first == IF Len(s) >= 1 /\ s[1] = q THEN 2 ELSE 1
      last == IF Len(s) >= first /\ s[Len(s)] = q THEN Len(s) - 1 ELSE Len(s)
  IN SubSeq(s, first, last)

\* path.extname: from the last '.' of the name, empty when there is none or
\* the name starts with its only '.'.
extname(filename) ==
  LET dots == {i \in DOMAIN filename : filename[i] = "."}
  IN IF dots = {} \/ MaxOf(dots) = 1 THEN <<>>
       ELSE SubSeq(filename, MaxOf(dots), Len(filename))

\* The number of decimal digits of s from position i on.
digitRun(s, i) ==
  LET stops == {k \in i..Len(s) : s[k] \notin Digits}
  IN IF i > Len(s) THEN 0
       ELSE (IF stops = {} THEN Len(s) + 1 ELSE MinOf(stops)) - i

InfinityText == <<"I", "n", "f", "i", "n", "i", "t", "y">>
NaN == [kind |-> "NaN"]

\* parseFloat: leading whitespace is skipped and the longest prefix that is a
\* decimal literal (sign, digits, fraction, exponent) is converted; NaN when
\* there is no such prefix.  The literals within the bounds are all finite.
parseFloat(string) ==
  LET s == trimStart(string)
      sign == IF charAt(s, 1) \in {"+", "-"} THEN 1 ELSE 0
      int == digitRun(s, sign + 1)
      dot == charAt(s, sign + int + 1) = "."
      frac == IF dot THEN digitRun(s, sign + int + 2) ELSE 0
      mantissa == IF int + frac = 0 THEN 0
                    ELSE sign + int + (IF dot THEN 1 + frac ELSE 0)
      esign == IF charAt(s, mantissa + 2) \in {"+", "-"} THEN 1 ELSE 0
      edigits == IF charAt(s, mantissa + 1) \in {"e", "E"}
                   THEN digitRun(s, mantissa + 2 + esign) ELSE 0
      end == IF edigits > 0 THEN mantissa + 1 + esign + edigits ELSE mantissa
  IN IF startsWith(SubSeq(s, sign + 1, Len(s)), InfinityText)
       THEN [kind |-> "Infinity"]
       ELSE IF mantissa = 0 THEN NaN
       ELSE [kind |-> "number", text |-> SubSeq(s, 1, end)]

isNaN(num) == num.kind = "NaN"
isFinite(num) == num.kind = "number"

\* Cells: null, a number (with the literal it was read from) or a string.
NullCell == [kind |-> "null"]
NumberCell(text) == [kind |-> "number", text |-> text]
StringCell(text) == [kind |-> "string", text |-> text]

NullText == <<"n", "u", "l", "l">>
ValueText == <<"v", "a", "l", "u", "e">>
AtData == <<"@", "d", "a", "t", "a">>
AtAttribute == <<"@", "a", "t", "t", "r", "i", "b", "u", "t", "e">>

\* What the handler returns: null, or a DatasetPreview.
NoPreview == [returned |-> "null"]
DatasetPreview(headers, rows, totalRows, fileType) ==
  [returned |-> "preview", headers |-> headers, rows |-> rows,
   totalRows |-> totalRows, fileType |-> fileType]

RECURSIVE parseCSVLineFrom(_, _, _, _, _)
parseCSVLineFrom(line, i, result_, current, inQuotes) ==
  IF i > Len(line) THEN Append(result_, trim(current))
    ELSE IF line[i] = "\""
      THEN parseCSVLineFrom(line, i + 1, result_, current, ~inQuotes)
    ELSE IF line[i] = "," /\ ~inQuotes
      THEN parseCSVLineFrom(line, i + 1, Append(result_, trim(current)), <<>>,
                            inQuotes)
    ELSE parseCSVLineFrom(line, i + 1, result_, Append(current, line[i]), inQuotes)

parseCSVLine(line) == parseCSVLineFrom(line, 1, <<>>, <<>>, FALSE)

\* The typing of a CSV cell.
csvCell(cell) ==
  LET trimmed == stripQuotes(cell, "\"")
      num == parseFloat(trimmed)
  IN IF trimmed = <<>> \/ toLowerCase(trimmed) = NullText THEN NullCell
       ELSE IF ~isNaN(num) /\ isFinite(num) THEN NumberCell(num.text)
       ELSE StringCell(trimmed)

parseCSV(content, fileType) ==
  LET lines == SelectSeq(split(content, "\n"), LAMBDA line : trim(line) # <<>>)
      headers == parseCSVLine(lines[1])
      dataLines == slice(lines, 1, 21)
      rows == [r \in DOMAIN dataLines |->
                 LET cells == parseCSVLine(dataLines[r])
                 IN [c \in DOMAIN cells |-> csvCell(cells[c])]]
  IN IF Len(lines) = 0 THEN DatasetPreview(<<>>, <<>>, 0, fileType)
       ELSE DatasetPreview(headers, rows, Len(lines) - 1, fileType)

\* Mutant of arffCell: '?' is not taken as a missing value.
arffCell_QuestionIsText(val) ==
  LET cleaned == stripQuotes(val, "'")
      num == parseFloat(cleaned)
  IN IF cleaned = <<>> \/ toLowerCase(cleaned) = NullText THEN NullCell
       ELSE IF ~isNaN(num) /\ isFinite(num) THEN NumberCell(num.text)
       ELSE StringCell(cleaned)

\* The typing of an ARFF value.
arffCell(val) ==
  LET cleaned == stripQuotes(val, "'")
      num == parseFloat(cleaned)
  IN IF cleaned = <<"?">> \/ cleaned = <<>> \/ toLowerCase(cleaned) = NullText
       THEN NullCell
       ELSE IF ~isNaN(num) /\ isFinite(num) THEN NumberCell(num.text)
       ELSE StringCell(cleaned)

parseARFF(content, fileType) ==
  LET split_ == split(content, "\n")
      lines == SelectSeq([i \in DOMAIN split_ |-> trim(split_[i])],
                         LAMBDA line : line # <<>>)
      dataStartIndex ==
        findIndex({i \in DOMAIN lines : toLowerCase(lines[i]) = AtData})
      attributes ==
        SelectSeq(SubSeq(lines, 1, dataStartIndex),
                  LAMBDA line : /\ startsWith(toLowerCase(line), AtAttribute)
                                /\ Len(splitWhitespace(line)) >= 2)
      headers == [i \in DOMAIN attributes |-> splitWhitespace(attributes[i])[2]]
      dataLines ==
        SelectSeq(slice(lines, dataStartIndex + 1, dataStartIndex + 21),
                  LAMBDA line : ~startsWith(line, <<"%">>))
      rows == [r \in DOMAIN dataLines |->
                 LET values == split(dataLines[r], ",")
                 IN [c \in DOMAIN values |-> arffCell(trim(values[c]))]]
      totalDataLines ==
        SelectSeq(sliceFrom(lines, dataStartIndex + 1),
                  LAMBDA line : line # <<>> /\ ~startsWith(line, <<"%">>))
  IN IF dataStartIndex = -1 THEN DatasetPreview(<<>>, <<>>, 0, fileType)
       ELSE DatasetPreview(headers, rows, Len(totalDataLines), fileType)

\* JSON values, as JSON.parse returns them; a number carries its decimal text
\* and an object its keys in insertion order.
JsonNull == [type |-> "null"]
JsonNumber(text) == [type |-> "number", text |-> text]
JsonString(text) == [type |-> "string", text |-> text]
JsonTrue == [type |-> "boolean", text |-> <<"t", "r", "u", "e">>]
JsonArray(items) == [type |-> "array", items |-> items]
JsonObject(keys, values) == [type |-> "object", keys |-> keys, values |-> values]
SyntaxError == [type |-> "SyntaxError"]
JsUndefined == [type |-> "undefined"]

\* typeof value, Array.isArray(value).
typeof(value) ==
  IF value.type \in {"null", "array", "object"} THEN "object" ELSE value.type

isArray(value) == value.type = "array"

\* The property names of an array: its indexes in decimal, here below ten.
IndexKeys ==
  <<<<"0">>, <<"1">>, <<"2">>, <<"3">>, <<"4">>, <<"5">>, <<"6">>, <<"7">>, <<"8">>,
    <<"9">>>>
indexOfKey(key) == {i \in DOMAIN IndexKeys : IndexKeys[i] = key}

\* Object.keys(value) of an object or an array.
ObjectKeys(value) ==
  IF value.type = "object" THEN value.keys
    ELSE SubSeq(IndexKeys, 1, Len(value.items))

\* value[key]: undefined when there is no such property.
getProperty(value, key) ==
  IF value.type = "object"
    THEN (LET at == {i \in DOMAIN value.keys : value.keys[i] = key}
          IN IF at = {} THEN JsUndefined ELSE value.values[MaxOf(at)])
    ELSE IF value.type = "array"
      THEN (LET at == {i \in indexOfKey(key) : i <= Len(value.items)}
            IN IF at = {} THEN JsUndefined ELSE value.items[MinOf(at)])
    ELSE IF value.type = "string"
      THEN (LET at == {i \in indexOfKey(key) : i <= Len(value.text)}
            IN IF at = {} THEN JsUndefined
                 ELSE JsonString(<<value.text[MinOf(at)]>>))
    ELSE JsUndefined

\* array.join(','), the elements already converted.
RECURSIVE join(_)
join(texts) ==
  IF texts = <<>> THEN <<>>
    ELSE IF Len(texts) = 1 THEN texts[1]
    ELSE texts[1] \o <<",">> \o join(Tail(texts))

\* String(value).
RECURSIVE String(_)
String(value) ==
  IF value.type = "null" THEN NullText
    ELSE IF value.type = "undefined"
      THEN <<"u", "n", "d", "e", "f", "i", "n", "e", "d">>
    ELSE IF value.type = "object"
      THEN <<"[", "o", "b", "j", "e", "c", "t", " ", "O", "b", "j", "e", "c", "t", "]">>
    ELSE IF value.type = "array"
      THEN join([i \in DOMAIN value.items |->
                   IF value.items[i].type \in {"null", "undefined"} THEN <<>>
                     ELSE String(value.items[i])])
    ELSE value.text

\* The cell of a JSON property value.
jsonCell(value) ==
  IF value.type \in {"null", "undefined"} THEN NullCell
    ELSE IF typeof(value) = "number" THEN NumberCell(value.text)
    ELSE StringCell(String(value))

\* JSON.parse(content): a text that is no JSON document throws a SyntaxError.
JSONparse(content) ==
  IF content.kind = "json" THEN content.parsed ELSE SyntaxError

\* What the try block throws: the SyntaxError of JSON.parse, or the TypeError
\* of Object.keys(null) and of reading a property of null.
parseThrows(data) ==
  \/ data.type = "SyntaxError"
  \/ /\ isArray(data) /\ Len(data.items) > 0
     /\ typeof(data.items[1]) = "object"
     /\ \/ data.items[1].type = "null"
        \/ /\ Len(ObjectKeys(data.items[1])) > 0
           /\ \E r \in DOMAIN slice(data.items, 0, 20) :
                data.items[r].type = "null"

parseJSON(content, fileType) ==
  LET data == JSONparse(content)
      first == data.items[1]
      rowOf(item, headers) ==
        [c \in DOMAIN headers |-> jsonCell(getProperty(item, headers[c]))]
  IN IF parseThrows(data) THEN DatasetPreview(<<>>, <<>>, 0, fileType)
       ELSE IF isArray(data) /\ Len(data.items) > 0 /\ typeof(first) = "object"
         THEN DatasetPreview(
                ObjectKeys(first),
                [r \in DOMAIN slice(data.items, 0, 20) |->
                   rowOf(data.items[r], ObjectKeys(first))],
                Len(data.items), fileType)
       ELSE IF typeof(data) = "object" /\ data.type # "null"
         THEN DatasetPreview(ObjectKeys(data), <<rowOf(data, ObjectKeys(data))>>,
                             1, fileType)
       ELSE DatasetPreview(<<ValueText>>, <<<<StringCell(String(data))>>>>, 1,
                           fileType)

\* The file of the call must exist; its content is then read and parsed by the
\* parser of the name's extension or, without one, of the declared type.
PreviewDatasetFile_Access(p) ==
  /\ pc[p] = "previewDatasetFile.access"
  /\ IF input[p].exists
       THEN Goto(p, "previewDatasetFile.readFile")
       ELSE Finish(p, NoPreview)
  /\ UNCHANGED <<users, profiles, datasets, curationReviews, datasetFiles, now,
                 input, dataset, before>>

\* Mutant of fileTypeOf: the declared type alone chooses the parser.
fileTypeOf_TypeOnly(file) == <<".">> \o toLowerCase(file.type)

fileTypeOf(file) ==
  LET fileExtension == toLowerCase(extname(file.filename))
  IN IF fileExtension # <<>> THEN fileExtension
       ELSE <<".">> \o toLowerCase(file.type)

previewOf(file, content) ==
  LET fileType == fileTypeOf(file)
  IN IF fileType = <<".", "c", "s", "v">> THEN parseCSV(content.chars, file.type)
       ELSE IF fileType = <<".", "j", "s", "o", "n">>
         THEN parseJSON(content, file.type)
       ELSE IF fileType = <<".", "a", "r", "f", "f">>
         THEN parseARFF(content.chars, file.type)
       ELSE NoPreview

PreviewDatasetFile_ReadFile(p) ==
  /\ pc[p] = "previewDatasetFile.readFile"
  /\ Finish(p, previewOf(input[p].file, input[p].content))
  /\ UNCHANGED <<users, profiles, datasets, curationReviews, datasetFiles, now,
                 input, dataset, before>>

\* ------------------------------------------------------- specifications
\* Spec: the curation workflow with requests served concurrently, so that the
\* awaited statements of different calls interleave.
Next ==
  \E p \in Procs :
    \/ CallCreateUser(p, FALSE, unusedEmail)
    \/ CallCreateDataset(p, FALSE)
    \/ CallUpdateDataset(p, FALSE, StatusPatches)
    \/ CallCreateCurationReview(p, FALSE)
    \/ CreateUser_Select(p)
    \/ CreateUser_Insert(p)
    \/ CreateDataset_SelectContributor(p)
    \/ CreateDataset_Insert(p)
    \/ UpdateDataset_Select(p)
    \/ UpdateDataset_Update(p)
    \/ CreateCurationReview_SelectReviewer(p)
    \/ CreateCurationReview_SelectDataset(p)
    \/ CreateCurationReview_SelectExisting(p)
    \/ CreateCurationReview_Insert(p)
    \/ CreateCurationReview_Update(p)
    \/ Return(p)

Spec == Init /\ [][Next]_vars

\* ProfileSpec: profile creation with requests served concurrently.
ProfileNext ==
  \E p \in Procs :
    \/ CallCreateUser(p, FALSE, unusedEmail)
    \/ CallCreateProfile(p, FALSE)
    \/ CreateUser_Select(p)
    \/ CreateUser_Insert(p)
    \/ CreateProfile_SelectUser(p)
    \/ CreateProfile_SelectProfile(p)
    \/ CreateProfile_Insert(p)
    \/ Return(p)

ProfileSpec == Init /\ [][ProfileNext]_vars

\* SeqSpec: one worker serves every kind of request, one call at a time, while
\* the clock advances; the tables are recorded when a call starts.
Worker == CHOOSE p \in Procs : \A q \in Procs : p <= q

SeqNext ==
  \/ Tick
  \/ CallCreateUser(Worker, TRUE, unusedEmail)
  \/ CallUpdateUser(Worker, TRUE, {Undefined}, {NoPassword})
  \/ CallCreateProfile(Worker, TRUE)
  \/ CallCreateDataset(Worker, TRUE)
  \/ CallUpdateDataset(Worker, TRUE, StatusPatches)
  \/ CallCreateCurationReview(Worker, TRUE)
  \/ CreateUser_Select(Worker)
  \/ CreateUser_Insert(Worker)
  \/ UpdateUser_Select(Worker)
  \/ UpdateUser_Update(Worker)
  \/ CreateProfile_SelectUser(Worker)
  \/ CreateProfile_SelectProfile(Worker)
  \/ CreateProfile_Insert(Worker)
  \/ CreateDataset_SelectContributor(Worker)
  \/ CreateDataset_Insert(Worker)
  \/ UpdateDataset_Select(Worker)
  \/ UpdateDataset_Update(Worker)
  \/ CreateCurationReview_SelectReviewer(Worker)
  \/ CreateCurationReview_SelectDataset(Worker)
  \/ CreateCurationReview_SelectExisting(Worker)
  \/ CreateCurationReview_Insert(Worker)
  \/ CreateCurationReview_Update(Worker)
  \/ Return(Worker)

SeqSpec == Init /\ [][SeqNext]_vars

\* DatasetSpec: metadata updates, served one at a time, of a repository that
\* holds one contributor and NumSeeded datasets submitted by that contributor.
SeededRows ==
  [status : {"draft", "published"}, contributor_id : {Worker}, updated_at : {0},
   created_at : {0}, title : Titles, doi : Dois, publication_year : {2024}]

DatasetInit ==
  /\ users = <<[role |-> "contributor", email |-> "a@x",
                password |-> bcryptHash(<<"p">>), name |-> Null]>>
  /\ profiles = <<>>
  /\ datasets \in [1..NumSeeded -> SeededRows]
  /\ curationReviews = <<>>
  /\ datasetFiles = <<>>
  /\ now = 0
  /\ pc = [p \in Procs |-> "idle"]
  /\ input = [p \in Procs |-> NoInput]
  /\ dataset = [p \in Procs |-> NoRows]
  /\ result = [p \in Procs |-> "none"]
  /\ before = NoTables

\* The inputs that provide any subset of status, title, doi and contributor_id,
\* for a dataset that exists or not and a contributor that exists or not.
FieldPatches ==
  [op : {"updateDataset"}, id : 1..(NumSeeded + 1),
   status : {"review", Undefined},
   title : Titles \cup {Undefined}, doi : Dois \cup {Undefined},
   contributor_id : UserIds \cup {NoId}]

DatasetNext ==
  \/ Tick
  \/ CallUpdateDataset(Worker, TRUE, FieldPatches)
  \/ UpdateDataset_Select(Worker)
  \/ UpdateDataset_Update(Worker)
  \/ Return(Worker)

DatasetSpec == DatasetInit /\ [][DatasetNext]_vars

\* UserSpec: registration and account updates with requests served
\* concurrently and callers free to ask for any address.
UserNext ==
  \E p \in Procs :
    \/ CallCreateUser(p, FALSE, Emails)
    \/ CallUpdateUser(p, FALSE, Emails \cup {Undefined}, {NoPassword})
    \/ CreateUser_Select(p)
    \/ CreateUser_Insert(p)
    \/ UpdateUser_Select(p)
    \/ UpdateUser_SelectEmail(p)
    \/ UpdateUser_Update(p)
    \/ Return(p)

UserSpec == Init /\ [][UserNext]_vars

\* FileSpec: users, datasets and file records created by calls served one at a
\* time; the tables are recorded when a call starts.
FileNext ==
  \/ CallCreateUser(Worker, TRUE, unusedEmail)
  \/ CallCreateDataset(Worker, TRUE)
  \/ CallCreateDatasetFile(Worker, TRUE)
  \/ CreateUser_Select(Worker)
  \/ CreateUser_Insert(Worker)
  \/ CreateDataset_SelectContributor(Worker)
  \/ CreateDataset_Insert(Worker)
  \/ CreateDatasetFile_Select(Worker)
  \/ CreateDatasetFile_Insert(Worker)
  \/ Return(Worker)

FileSpec == Init /\ [][FileNext]_vars

\* PreviewSpec: one preview call, its file and the content of the file drawn
\* from the families below.
Text(chars) == [kind |-> "text", chars |-> chars]
Json(value) == [kind |-> "json", parsed |-> value]

CsvFile == [filename |-> <<"d", ".", "c", "s", "v">>, type |-> <<"c", "s", "v">>]
JsonFile ==
  [filename |-> <<"d", ".", "J", "S", "O", "N">>, type |-> <<"j", "s", "o", "n">>]
ArffFile == [filename |-> <<"d">>, type |-> <<"A", "R", "F", "F">>]
TextFile == [filename |-> <<"d", ".", "t", "x", "t">>, type |-> <<"c", "s", "v">>]

PreviewInput(file, exists, content) ==
  [op |-> "previewDatasetFile", file |-> file, exists |-> exists,
   content |-> content]

\* The worker is called with the input.
DrawInput(in) == input = [p \in Procs |-> IF p = Worker THEN in ELSE NoInput]

\* Files of a header line and one data line of up to MaxLineLen characters.
TokenChars ==
  {"1", ".", "-", "e", "a", " ", "'", "\"", ",", "?", "n", "u", "l", "N"}

TokenInputs ==
  \E n \in 0..MaxLineLen :
    \E line \in [1..n -> TokenChars] :
      \/ DrawInput(PreviewInput(CsvFile, TRUE,
                                Text(<<"a", ",", "b", "\n">> \o line)))
      \/ DrawInput(PreviewInput(ArffFile, TRUE, Text(AtData \o <<"\n">> \o line)))

\* Files of up to MaxRows data lines, with blank lines (CSV) or comment lines
\* (ARFF) before, between or after them.
RECURSIVE Repeat(_, _)
Repeat(line, n) ==
  IF n = 0 THEN <<>> ELSE line \o <<"\n">> \o Repeat(line, n - 1)

Block(other, first, n, mid, m) ==
  Repeat(other, first) \o Repeat(<<"1">>, n) \o Repeat(other, mid) \o
  Repeat(<<"2">>, m)

Attribute == AtAttribute \o <<" ", "x", " ", "r", "e", "a", "l", "\n">>

RowInputs ==
  \/ \E first \in 0..1, n \in 0..1, mid \in 0..MaxComments, m \in 0..MaxRows :
       \/ DrawInput(PreviewInput(CsvFile, TRUE,
            Text(<<"a", "\n">> \o Block(<<" ">>, first, n, mid, m))))
       \/ DrawInput(PreviewInput(ArffFile, TRUE,
            Text(Attribute \o AtData \o <<"\n">> \o
                 Block(<<"%">>, first, n, mid, m))))
  \/ \E n \in 0..MaxRows :
       DrawInput(PreviewInput(JsonFile, TRUE,
         Json(JsonArray([i \in 1..n |->
           JsonObject(<<(<<"a">>)>>, <<JsonNumber(<<"1">>)>>)]))))

\* JSON documents: scalars, null, records, and arrays of up to MaxItems of them.
JsonScalars == {JsonNull, JsonNumber(<<"1">>), JsonString(<<"x">>), JsonTrue}

JsonRecords ==
  {JsonObject(<<>>, <<>>),
   JsonObject(<<(<<"a">>)>>, <<JsonNumber(<<"1">>)>>),
   JsonObject(<<(<<"a">>), (<<"b">>)>>, <<JsonNull, JsonString(<<"x">>)>>)}

JsonItems == JsonScalars \cup JsonRecords \cup {JsonArray(<<>>)}

JsonInputs ==
  \/ \E doc \in JsonItems \cup {SyntaxError} :
       DrawInput(PreviewInput(JsonFile, TRUE, Json(doc)))
  \/ \E n \in 0..MaxItems :
       \E items \in [1..n -> JsonItems] :
         DrawInput(PreviewInput(JsonFile, TRUE, Json(JsonArray(items))))

\* Files that are missing, of a type without parser, or parsed by the parser
\* of another format.
DispatchInputs ==
  \E file \in {CsvFile, JsonFile, ArffFile, TextFile}, exists \in BOOLEAN :
    DrawInput(PreviewInput(file, exists, Text(<<"a", "\n", "1">>)))

PreviewInit ==
  /\ users = <<>>
  /\ profiles = <<>>
  /\ datasets = <<>>
  /\ curationReviews = <<>>
  /\ datasetFiles = <<>>
  /\ now = 0
  /\ pc = [p \in Procs |->
             IF p = Worker THEN "previewDatasetFile.access" ELSE "idle"]
  /\ \/ TokenInputs
     \/ RowInputs
     \/ JsonInputs
     \/ DispatchInputs
  /\ dataset = [p \in Procs |-> NoRows]
  /\ result = [p \in Procs |-> "none"]
  /\ before = NoTables

PreviewNext ==
  \/ PreviewDatasetFile_Access(Worker)
  \/ PreviewDatasetFile_ReadFile(Worker)
  \/ Return(Worker)

PreviewSpec == PreviewInit /\ [][PreviewNext]_vars

\* A repository that earlier calls have filled: up to MaxUsers users with
\* distinct addresses, and datasets, profiles and reviews that reference them,
\* each table with room for one more row where the handlers are bounded.
SeededInit(userRows, datasetRows, profileRows, reviewRows) ==
  /\ \E n \in 1..MaxUsers :
       \E rows \in [1..n -> userRows] :
         users = [i \in 1..n |->
                    [rows[i] EXCEPT !.email = IF i = 1 THEN "a@x"
                                                ELSE IF i = 2 THEN "b@x" ELSE "c@x"]]
  /\ \E n \in 0..MaxDatasets :
       datasets \in [1..n -> {row \in datasetRows :
                                row.contributor_id \in DOMAIN users}]
  /\ \E n \in 0..(MaxProfiles - 1) :
       profiles \in [1..n -> {row \in profileRows : row.user_id \in DOMAIN users}]
  /\ \E n \in 0..(MaxReviews - 1) :
       curationReviews \in
         [1..n -> {row \in reviewRows : /\ row.dataset_id \in DOMAIN datasets
                                        /\ row.reviewer_id \in DOMAIN users}]
  /\ datasetFiles = <<>>
  /\ now = 0
  /\ pc = [p \in Procs |-> "idle"]
  /\ input = [p \in Procs |-> NoInput]
  /\ dataset = [p \in Procs |-> NoRows]
  /\ result = [p \in Procs |-> "none"]
  /\ before = NoTables

\* QuerySpec: the calls that read and write nothing, served one at a time on a
\* repository whose users registered with or without a name and whose
\* passwords were stored by createUser or replaced by updateUser.
QueryNext ==
  \/ CallAuthenticateUser(Worker, FALSE)
  \/ AuthenticateUser_Select(Worker)
  \/ CallGenerateCitation(Worker, FALSE)
  \/ GenerateCitation_Select(Worker)
  \/ Return(Worker)

QuerySpec ==
  /\ SeededInit([role : {"contributor"}, email : {"a@x"},
                 password : {bcryptHash(password) : password \in Passwords} \cup
                            {sha256Hash(password) : password \in Passwords},
                 name : {Null, "", "Ann"}],
                {}, {}, {})
  /\ [][QueryNext]_vars

\* CallSpec: one call of a handler that writes, on a repository that earlier
\* calls have filled, with the tables recorded when the call starts.
CallNext ==
  \/ CallCreateUser(Worker, TRUE, Emails)
  \/ CallUpdateUser(Worker, TRUE, Emails \cup {Undefined}, Passwords \cup {NoPassword})
  \/ CallCreateProfile(Worker, TRUE)
  \/ CallCreateDataset(Worker, TRUE)
  \/ CallUpdateDataset(Worker, TRUE, FieldPatches)
  \/ CallCreateCurationReview(Worker, TRUE)
  \/ CallCreateDatasetFile(Worker, TRUE)
  \/ CreateUser_Select(Worker)
  \/ CreateUser_Insert(Worker)
  \/ UpdateUser_Select(Worker)
  \/ UpdateUser_SelectEmail(Worker)
  \/ UpdateUser_Update(Worker)
  \/ CreateProfile_SelectUser(Worker)
  \/ CreateProfile_SelectProfile(Worker)
  \/ CreateProfile_Insert(Worker)
  \/ CreateDataset_SelectContributor(Worker)
  \/ CreateDataset_Insert(Worker)
  \/ UpdateDataset_Select(Worker)
  \/ UpdateDataset_Update(Worker)
  \/ CreateCurationReview_SelectReviewer(Worker)
  \/ CreateCurationReview_SelectDataset(Worker)
  \/ CreateCurationReview_SelectExisting(Worker)
  \/ CreateCurationReview_Insert(Worker)
  \/ CreateCurationReview_Update(Worker)
  \/ CreateDatasetFile_Select(Worker)
  \/ CreateDatasetFile_Insert(Worker)

CallSpec ==
  /\ SeededInit([role : userRoleEnum, email : {"a@x"},
                 password : {bcryptHash(<<"p">>)}, name : {Null}],
                [status : datasetStatusEnum, contributor_id : UserIds,
                 updated_at : {0}, created_at : {0}, title : {"T"}, doi : {Null},
                 publication_year : {2024}],
                [user_id : UserIds, type : {"lecturer"}, department : {"CS"}],
                [dataset_id : DatasetIds, reviewer_id : UserIds,
                 status : curationReviewStatusEnum])
  /\ [][CallNext]_vars

\* ReportSpec: reports drawn, one at a time, from a repository of up to
\* NumSeeded datasets of two years and up to MaxProfiles profiles, of which a
\* user may have none, one or, as createProfile allows, two.
ReportInit ==
  /\ \E n \in 1..MaxUsers :
       users = [i \in 1..n |->
                  [role |-> "contributor", email |-> IF i = 1 THEN "a@x" ELSE "b@x",
                   password |-> bcryptHash(<<"p">>), name |-> Null]]
  /\ \E n \in 0..NumSeeded :
       datasets \in [1..n -> [status : {"published"}, contributor_id : DOMAIN users,
                              updated_at : {0}, created_at : {0}, title : {"T"},
                              doi : {Null}, publication_year : {2022, 2024}]]
  /\ \E n \in 0..MaxProfiles :
       profiles \in [1..n -> [user_id : DOMAIN users, type : {"lecturer", "student"},
                              department : {"CS", "EE"}]]
  /\ curationReviews = <<>>
  /\ datasetFiles = <<>>
  /\ now = 0
  /\ pc = [p \in Procs |-> "idle"]
  /\ input = [p \in Procs |-> NoInput]
  /\ dataset = [p \in Procs |-> NoRows]
  /\ result = [p \in Procs |-> "none"]
  /\ before = NoTables

ReportNext ==
  \/ CallGenerateReports(Worker, FALSE)
  \/ GenerateReports_Select(Worker)
  \/ Return(Worker)

ReportSpec == ReportInit /\ [][ReportNext]_vars

\* DashSpec: the dashboard is read while datasets are submitted, updated and
\* reviewed by concurrent requests, on a repository whose dataset, if any, was
\* created today or 31 days ago.
DashNext ==
  \E p \in Procs :
    \/ CallGetDashboardStats(p, FALSE)
    \/ GetDashboardStats_Select(p)
    \/ CallCreateDataset(p, FALSE)
    \/ CreateDataset_SelectContributor(p)
    \/ CreateDataset_Insert(p)
    \/ CallUpdateDataset(p, FALSE, StatusPatches)
    \/ UpdateDataset_Select(p)
    \/ UpdateDataset_Update(p)
    \/ CallCreateCurationReview(p, FALSE)
    \/ CreateCurationReview_SelectReviewer(p)
    \/ CreateCurationReview_SelectDataset(p)
    \/ CreateCurationReview_SelectExisting(p)
    \/ CreateCurationReview_Insert(p)
    \/ CreateCurationReview_Update(p)
    \/ Return(p)

DashSpec ==
  /\ SeededInit([role : {"contributor", "curator"}, email : {"a@x"},
                 password : {bcryptHash(<<"p">>)}, name : {Null}],
                [status : datasetStatusEnum, contributor_id : UserIds,
                 updated_at : {0}, created_at : {0 - 31, 0}, title : {"T"},
                 doi : {Null}, publication_year : {2024}],
                {},
                [dataset_id : DatasetIds, reviewer_id : UserIds,
                 status : curationReviewStatusEnum])
  /\ [][DashNext]_vars

\* ReviewSpec: reviews filed concurrently, and nothing else, on a repository
\* of users of any role and a dataset of any status.
ReviewNext ==
  \E p \in Procs :
    \/ CallCreateCurationReview(p, FALSE)
    \/ CreateCurationReview_SelectReviewer(p)
    \/ CreateCurationReview_SelectDataset(p)
    \/ CreateCurationReview_SelectExisting(p)
    \/ CreateCurationReview_Insert(p)
    \/ CreateCurationReview_Update(p)
    \/ Return(p)

ReviewSpec ==
  /\ SeededInit([role : userRoleEnum, email : {"a@x"},
                 password : {bcryptHash(<<"p">>)}, name : {Null}],
                [status : datasetStatusEnum, contributor_id : UserIds,
                 updated_at : {0}, created_at : {0}, title : {"T"}, doi : {Null},
                 publication_year : {2024}],
                {}, {})
  /\ [][ReviewNext]_vars

\* ----------------------------------------------------------------- claims
\* Process p has finished serving a call of handler op.
Served(p, op) == pc[p] = "done" /\ input[p].op = op
Succeeded(p, op) == Served(p, op) /\ result[p] = "ok"

\* The status of dataset d when the call being served started.
StatusBefore(d) == before.datasets[d].status

\* C1: a successful createCurationReview with status 'approved' leaves the
\* dataset 'approved' if its status before the call was 'review', and leaves
\* the status as it was if it was 'draft', 'approved' or 'published'.
C1_ApprovedReview ==
  \A p \in Procs :
    (Succeeded(p, "createCurationReview") /\ input[p].status = "approved") =>
      LET d == input[p].dataset_id IN
        datasets[d].status =
          IF StatusBefore(d) = "review" THEN "approved" ELSE StatusBefore(d)

\* C1 witness: an approving review has been filed on a dataset that was in review.
C1_Witness ==
  \E p \in Procs :
    /\ Succeeded(p, "createCurationReview")
    /\ input[p].status = "approved"
    /\ StatusBefore(input[p].dataset_id) = "review"
    /\ datasets[input[p].dataset_id].status = "approved"

\* C2: a successful createCurationReview with status 'rejected' leaves the
\* dataset 'draft', whatever its status before the call.
C2_RejectedReview ==
  \A p \in Procs :
    (Succeeded(p, "createCurationReview") /\ input[p].status = "rejected") =>
      datasets[input[p].dataset_id].status = "draft"

\* C2 witness: a rejecting review has been filed on a published dataset.
C2_Witness ==
  \E p \in Procs :
    /\ Succeeded(p, "createCurationReview")
    /\ input[p].status = "rejected"
    /\ StatusBefore(input[p].dataset_id) = "published"
    /\ datasets[input[p].dataset_id].status = "draft"

\* C3: a successful createCurationReview with status 'pending' leaves every
\* dataset row (status and updated_at included) as it was before the call; the
\* only change to the tables is the review row added.
C3_PendingReview ==
  \A p \in Procs :
    (Succeeded(p, "createCurationReview") /\ input[p].status = "pending") =>
      /\ datasets = before.datasets
      /\ users = before.users
      /\ profiles = before.profiles
      /\ curationReviews = Append(before.curationReviews,
           [dataset_id |-> input[p].dataset_id,
            reviewer_id |-> input[p].reviewer_id, status |-> "pending"])

\* C3 witness: a pending review has been filed on a dataset last written at an
\* earlier time, so that a write of the dataset would show in updated_at.
C3_Witness ==
  \E p \in Procs :
    /\ Succeeded(p, "createCurationReview")
    /\ input[p].status = "pending"
    /\ datasets[input[p].dataset_id].updated_at < now

\* C4: there is at most one curation review per (dataset, reviewer) pair.
C4_OneReviewPerPair ==
  \A i, j \in DOMAIN curationReviews :
    (/\ curationReviews[i].dataset_id = curationReviews[j].dataset_id
     /\ curationReviews[i].reviewer_id = curationReviews[j].reviewer_id) => i = j

\* C5: each user has at most one profile.
C5_OneProfilePerUser ==
  \A i, j \in DOMAIN profiles :
    profiles[i].user_id = profiles[j].user_id => i = j

\* The calls C6 is about: the table already held a row with the call's key when
\* the call started.
HadProfile(p) ==
  \E i \in DOMAIN before.profiles : before.profiles[i].user_id = input[p].user_id

HadReview(p) ==
  \E i \in DOMAIN before.curationReviews :
    /\ before.curationReviews[i].dataset_id = input[p].dataset_id
    /\ before.curationReviews[i].reviewer_id = input[p].reviewer_id

IsCurator(id) == id \in DOMAIN users /\ users[id].role \in {"curator", "admin"}

C7_ApproveOnlyFromReview ==
  [][\A p \in Procs :
       (/\ pc[p] = "createCurationReview.update"
        /\ pc'[p] = "done"
        /\ datasets'[input[p].dataset_id].status = "approved") =>
         datasets[input[p].dataset_id].status = "review"]_vars

\* C8: no statement of createCurationReview moves a dataset into 'published':
\* a dataset that is 'published' after the statement was 'published' before it.
C8_ReviewNeverPublishes ==
  [][\A p \in Procs :
       (input[p].op = "createCurationReview" /\ pc'[p] # pc[p]) =>
         \A d \in DOMAIN datasets' :
           datasets'[d].status = "published" =>
             (d \in DOMAIN datasets /\ datasets[d].status = "published")]_vars

\* C8 witness: an approving review filed on a dataset it read as 'review' has
\* written the dataset's status, which is now 'approved'.
C8_Witness ==
  \E p \in Procs :
    /\ Succeeded(p, "createCurationReview")
    /\ input[p].status = "approved"
    /\ dataset[p][1].status = "review"
    /\ datasets[input[p].dataset_id].status = "approved"

\* C9 as stated: a createCurationReview call on a dataset that is 'published'
\* when the call starts leaves it 'published', whatever the review's status.
C9_PublishedTerminal ==
  \A p \in Procs :
    (/\ Served(p, "createCurationReview")
     /\ input[p].dataset_id \in DOMAIN before.datasets
     /\ StatusBefore(input[p].dataset_id) = "published") =>
       datasets[input[p].dataset_id].status = "published"

\* C9 amended: a createCurationReview call on a dataset that is 'published' when
\* the call starts leaves it 'published' unless the call succeeds with status
\* 'rejected', which resets the dataset to 'draft'.
C9_PublishedUnlessRejected ==
  \A p \in Procs :
    (/\ Served(p, "createCurationReview")
     /\ input[p].dataset_id \in DOMAIN before.datasets
     /\ StatusBefore(input[p].dataset_id) = "published") =>
       datasets[input[p].dataset_id].status =
         IF result[p] = "ok" /\ input[p].status = "rejected"
           THEN "draft" ELSE "published"

\* C9 witness: a pending review has been filed on a published dataset.
C9_Witness ==
  \E p \in Procs :
    /\ Succeeded(p, "createCurationReview")
    /\ input[p].status = "pending"
    /\ StatusBefore(input[p].dataset_id) = "published"

\* C10: every dataset persisted by createDataset has status 'draft' when the
\* call returns.
C10_CreatedAsDraft ==
  \A p \in Procs :
    Succeeded(p, "createDataset") => datasets[Len(datasets)].status = "draft"

\* C11: createDataset succeeds exactly when contributor_id references a user
\* who exists when the call starts and whose role is contributor, curator or
\* admin; it fails with NotFound when there is no such user and with
\* PermissionDenied when the user is a viewer; a failed call inserts no dataset
\* and a successful one inserts exactly one.
C11_CreateDatasetOutcome ==
  \A p \in Procs :
    Served(p, "createDataset") =>
      LET c == input[p].contributor_id IN
        /\ result[p] =
             IF c \notin DOMAIN before.users THEN "NotFound"
               ELSE IF before.users[c].role = "viewer" THEN "PermissionDenied"
               ELSE "ok"
        /\ result[p] # "ok" => datasets = before.datasets
        /\ result[p] = "ok" => Len(datasets) = Len(before.datasets) + 1

\* C11 witness: createDataset on behalf of a viewer has been refused.
C11_Witness ==
  \E p \in Procs :
    /\ Served(p, "createDataset")
    /\ input[p].contributor_id \in DOMAIN users
    /\ users[input[p].contributor_id].role = "viewer"
    /\ result[p] = "PermissionDenied"

\* C12: the outcome of createCurationReview is decided in this order: reviewer
\* missing gives NotFound; else a role other than curator or admin gives
\* PermissionDenied; else dataset missing gives NotFound; else an earlier review
\* by that reviewer on that dataset gives Conflict; else the call succeeds.
C12_ErrorPrecedence ==
  \A p \in Procs :
    Served(p, "createCurationReview") =>
      LET r == input[p].reviewer_id IN
        result[p] =
          IF r \notin DOMAIN before.users THEN "NotFound"
            ELSE IF before.users[r].role \notin {"curator", "admin"}
              THEN "PermissionDenied"
            ELSE IF input[p].dataset_id \notin DOMAIN before.datasets
              THEN "NotFound"
            ELSE IF HadReview(p) THEN "Conflict"
            ELSE "ok"

\* C12 witness: a reviewer who is neither curator nor admin has filed a review
\* on a dataset that does not exist, and got PermissionDenied.
C12_Witness ==
  \E p \in Procs :
    /\ Served(p, "createCurationReview")
    /\ input[p].reviewer_id \in DOMAIN users
    /\ input[p].dataset_id \notin DOMAIN datasets
    /\ result[p] = "PermissionDenied"

\* The effect of the patch `in` on the row `old`, written at time t.
Patched(old, in, t) ==
  [status |-> IF in.status # Undefined THEN in.status ELSE old.status,
   title |-> IF in.title # Undefined THEN in.title ELSE old.title,
   doi |-> IF in.doi # Undefined THEN in.doi ELSE old.doi,
   contributor_id |-> IF in.contributor_id # NoId
                        THEN in.contributor_id ELSE old.contributor_id,
   publication_year |-> old.publication_year,
   created_at |-> old.created_at,
   updated_at |-> t]

\* The write of an updateDataset call by process p happens in this step.
UpdateWrites(p) ==
  /\ input[p].op = "updateDataset"
  /\ pc[p] = "updateDataset.update"
  /\ pc'[p] = "done"

\* No step of an updateDataset call touches a dataset other than its target.
OtherRowsKept(p) ==
  (input[p].op = "updateDataset" /\ pc'[p] # pc[p]) =>
    /\ DOMAIN datasets' = DOMAIN datasets
    /\ \A d \in DOMAIN datasets : d # input[p].id => datasets'[d] = datasets[d]

\* C13 as stated: the write of updateDataset on an existing dataset succeeds
\* and gives every provided field the provided value (doi = null included),
\* keeps every other field, sets updated_at to the time of the write, and no
\* step of the call changes another dataset row.
C13_PartialUpdateAlways ==
  [][\A p \in Procs :
       /\ OtherRowsKept(p)
       /\ UpdateWrites(p) =>
            /\ result'[p] = "ok"
            /\ datasets'[input[p].id] =
                 Patched(datasets[input[p].id], input[p], now)]_vars

\* C13 amended: as C13 when the input gives no contributor_id or one that
\* references a user; when it gives a contributor_id that references no user,
\* the call fails with the database's error and changes no dataset row.
C13_PartialUpdate ==
  [][\A p \in Procs :
       /\ OtherRowsKept(p)
       /\ UpdateWrites(p) =>
            IF \/ input[p].contributor_id = NoId
               \/ input[p].contributor_id \in DOMAIN users
              THEN /\ result'[p] = "ok"
                   /\ datasets'[input[p].id] =
                        Patched(datasets[input[p].id], input[p], now)
              ELSE /\ result'[p] = "DatabaseError"
                   /\ datasets' = datasets]_vars

\* C13 witness: an update that gave doi = null and no title has cleared the DOI
\* of a dataset, kept its title and refreshed updated_at, next to another
\* dataset that it left alone.
C13_Witness ==
  \E p \in Procs :
    /\ Succeeded(p, "updateDataset")
    /\ input[p].doi = Null /\ input[p].title = Undefined
    /\ before.datasets[input[p].id].doi # Null
    /\ datasets[input[p].id].doi = Null
    /\ datasets[input[p].id].title = before.datasets[input[p].id].title
    /\ datasets[input[p].id].updated_at > before.datasets[input[p].id].updated_at
    /\ \E d \in DOMAIN datasets :
         d # input[p].id /\ datasets[d] = before.datasets[d]

C15_UniqueEmails ==
  \A i, j \in DOMAIN users : users[i].email = users[j].email => i = j

\* C15 witness: a createUser and an updateUser asking for the same address have
\* both passed their check; the registration was written and the update was
\* then rejected by the database.
C15_Witness ==
  \E p, q \in Procs :
    /\ Succeeded(p, "createUser")
    /\ Served(q, "updateUser")
    /\ input[q].email = input[p].email
    /\ result[q] = "DatabaseError"

\* C16: createDatasetFile succeeds if and only if the lower-cased type is csv,
\* json or arff, the size is at least 0 and at most 100*1024*1024, and the
\* dataset exists when the call starts; a successful call adds one file row
\* with the type as given, a failed call leaves the file rows as they were.
C16_CreateDatasetFileOutcome ==
  \A p \in Procs :
    Served(p, "createDatasetFile") =>
      LET in == input[p]
          valid ==
            /\ toLowerCase(in.type) \in
                 {<<"c", "s", "v">>, <<"j", "s", "o", "n">>, <<"a", "r", "f", "f">>}
            /\ 0 <= in.size /\ in.size <= 100 * 1024 * 1024
            /\ in.dataset_id \in DOMAIN before.datasets
      IN /\ result[p] = "ok" <=> valid
         /\ result[p] = "ok" =>
              datasetFiles = Append(before.datasetFiles,
                [dataset_id |-> in.dataset_id, size |-> in.size, type |-> in.type])
         /\ result[p] # "ok" => datasetFiles = before.datasetFiles

\* C16 witness: a file of exactly 100*1024*1024 bytes declared as 'CSV' has
\* been recorded with type 'CSV'.
C16_Witness ==
  \E p \in Procs :
    /\ Succeeded(p, "createDatasetFile")
    /\ input[p].type = <<"C", "S", "V">>
    /\ input[p].size = 100 * 1024 * 1024
    /\ datasetFiles[Len(datasetFiles)].type = <<"C", "S", "V">>

\* A preview call has returned a preview of a file of the given format.
Previewed(p, fileType) ==
  /\ pc[p] = "done"
  /\ input[p].op = "previewDatasetFile"
  /\ input[p].exists
  /\ fileTypeOf(input[p].file) = fileType

DotCsv == <<".", "c", "s", "v">>
DotJson == <<".", "j", "s", "o", "n">>
DotArff == <<".", "a", "r", "f", "f">>

\* The lines of the file that are not blank, trimmed.
LinesOf_(content) ==
  LET all == split(content.chars, "\n")
  IN SelectSeq([i \in DOMAIN all |-> trim(all[i])], LAMBDA line : line # <<>>)

LinesOf(p) == LinesOf_(input[p].content)

\* The data rows of the file, uncapped: the lines after the header (CSV), the
\* lines after @data that are no comments (ARFF), the elements (JSON).
CsvDataRows(p) == Tail(LinesOf(p))

ArffDataRows(p) ==
  LET lines == LinesOf(p)
      marker == MinOf({i \in DOMAIN lines : toLowerCase(lines[i]) = AtData})
  IN SelectSeq(SubSeq(lines, marker + 1, Len(lines)),
               LAMBDA line : line[1] # "%")

IsRecordSequence(value) ==
  /\ value.type = "array"
  /\ Len(value.items) > 0
  /\ \A i \in DOMAIN value.items : value.items[i].type = "object"

RowsAreMinOfTotal(p, dataRows) ==
  /\ result[p].totalRows = Len(dataRows)
  /\ Len(result[p].rows) = IF Len(dataRows) < 20 THEN Len(dataRows) ELSE 20

\* C17: for every CSV file with a header line, every ARFF file with a @data
\* line and every JSON array of records, totalRows is the number of data rows
\* of the file and the preview holds min(totalRows, 20) rows, wherever blank
\* lines and '%' comment lines lie among the data lines.
C17_RowsAreMinOfTotal ==
  \A p \in Procs :
    /\ (Previewed(p, DotCsv) /\ LinesOf(p) # <<>>) =>
         RowsAreMinOfTotal(p, CsvDataRows(p))
    /\ (/\ Previewed(p, DotArff)
        /\ \E i \in DOMAIN LinesOf(p) : toLowerCase(LinesOf(p)[i]) = AtData) =>
         RowsAreMinOfTotal(p, ArffDataRows(p))
    /\ (/\ Previewed(p, DotJson)
        /\ input[p].content.kind = "json"
        /\ IsRecordSequence(input[p].content.parsed)) =>
         RowsAreMinOfTotal(p, input[p].content.parsed.items)

\* The decimal literals: an optional sign, digits with an optional fraction or
\* a fraction alone, and an optional exponent.
AllDigits(s) == \A i \in DOMAIN s : s[i] \in Digits

Unsigned(s) == IF Len(s) >= 1 /\ s[1] \in {"+", "-"} THEN Tail(s) ELSE s

IsMantissa(s) ==
  LET u == Unsigned(s)
  IN \E d \in 0..Len(u) :
       /\ AllDigits(SubSeq(u, 1, d))
       /\ \/ d = Len(u) /\ d >= 1
          \/ /\ d < Len(u)
             /\ u[d + 1] = "."
             /\ AllDigits(SubSeq(u, d + 2, Len(u)))
             /\ Len(u) >= 2

IsExponent(s) ==
  /\ Len(s) >= 2
  /\ s[1] \in {"e", "E"}
  /\ Len(Unsigned(Tail(s))) >= 1
  /\ AllDigits(Unsigned(Tail(s)))

\* The full token parses as a number.
IsNumber(token) ==
  LET t == trim(token)
  IN \E m \in 1..Len(t) :
       /\ IsMantissa(SubSeq(t, 1, m))
       /\ m = Len(t) \/ IsExponent(SubSeq(t, m + 1, Len(t)))

\* The file has one data row; its tokens are those of the second line, each
\* trimmed and without its quotes.
OneDataRow(p) ==
  /\ Len(LinesOf(p)) = 2
  /\ Len(result[p].rows) = 1

CsvTokens(p) == parseCSVLine(LinesOf(p)[2])

ArffTokens(p) ==
  LET values == split(LinesOf(p)[2], ",")
  IN [c \in DOMAIN values |-> stripQuotes(trim(values[c]), "'")]

IsNullToken(token) == token = <<>> \/ toLowerCase(token) = NullText

\* C18: in a CSV or ARFF data row, a token that is empty or 'null' in any
\* letter case gives a null cell; the token '?' gives a null cell in ARFF and
\* the string '?' in CSV; a token that is a number in full gives a number cell.
C18_NullAndNumberCells ==
  \A p \in Procs :
    /\ (Previewed(p, DotCsv) /\ OneDataRow(p)) =>
         /\ Len(result[p].rows[1]) = Len(CsvTokens(p))
         /\ \A c \in DOMAIN CsvTokens(p) :
              LET token == CsvTokens(p)[c]
                  cell == result[p].rows[1][c]
              IN /\ IsNullToken(token) => cell = NullCell
                 /\ token = <<"?">> => cell = StringCell(<<"?">>)
                 /\ IsNumber(token) => cell.kind = "number"
    /\ (Previewed(p, DotArff) /\ OneDataRow(p)) =>
         /\ Len(result[p].rows[1]) = Len(ArffTokens(p))
         /\ \A c \in DOMAIN ArffTokens(p) :
              LET token == ArffTokens(p)[c]
                  cell == result[p].rows[1][c]
              IN /\ (IsNullToken(token) \/ token = <<"?">>) => cell = NullCell
                 /\ IsNumber(token) => cell.kind = "number"

\* C18 witness: an ARFF row of a '?' and a number has been previewed as a null
\* cell and a number cell.
C18_Witness ==
  \E p \in Procs :
    /\ Previewed(p, DotArff) /\ OneDataRow(p)
    /\ ArffTokens(p) = <<(<<"?">>), (<<"1">>)>>
    /\ result[p].rows[1] = <<NullCell, NumberCell(<<"1">>)>>

\* C19: in a CSV or ARFF data row, a token that is not null gives a number
\* cell only if it is a number in full, and every other token gives the string
\* of the token, trimmed and without its surrounding quotes.
C19_NumberOnlyIfFullToken ==
  \A p \in Procs :
    /\ (Previewed(p, DotCsv) /\ OneDataRow(p)) =>
         \A c \in DOMAIN CsvTokens(p) :
           LET token == CsvTokens(p)[c]
               cell == result[p].rows[1][c]
           IN (~IsNullToken(token) /\ ~IsNumber(token)) =>
                cell = StringCell(token)
    /\ (Previewed(p, DotArff) /\ OneDataRow(p)) =>
         \A c \in DOMAIN ArffTokens(p) :
           LET token == ArffTokens(p)[c]
               cell == result[p].rows[1][c]
           IN (~IsNullToken(token) /\ token # <<"?">> /\ ~IsNumber(token)) =>
                cell = StringCell(token)

\* C20: a JSON document that is neither a record nor a non-empty sequence of
\* records (a scalar, null, an empty array, an array of scalars) is previewed
\* with the single header 'value', one row holding the document as a string,
\* and totalRows = 1.
C20_OtherwiseValue ==
  \A p \in Procs :
    (/\ Previewed(p, DotJson)
     /\ input[p].content.kind = "json"
     /\ input[p].content.parsed.type \notin {"SyntaxError", "object"}
     /\ ~IsRecordSequence(input[p].content.parsed)) =>
       result[p] =
         DatasetPreview(<<ValueText>>,
                        <<<<StringCell(String(input[p].content.parsed))>>>>, 1,
                        input[p].file.type)

\* The preview without headers, rows and total.
EmptyPreview(p) == DatasetPreview(<<>>, <<>>, 0, input[p].file.type)

PreviewDone(p) == pc[p] = "done" /\ input[p].op = "previewDatasetFile"

\* The document is no JSON, or it is an array on which reading the records
\* fails: its first element is null, or its first element has keys and one of
\* its first 20 elements is null.
MalformedJson(content) ==
  \/ content.kind = "text"
  \/ content.parsed.type = "SyntaxError"
  \/ /\ content.parsed.type = "array"
     /\ Len(content.parsed.items) > 0
     /\ \/ content.parsed.items[1].type = "null"
        \/ /\ content.parsed.items[1].type \in {"object", "array"}
           /\ content.parsed.items[1] \notin
                {JsonObject(<<>>, <<>>), JsonArray(<<>>)}
           /\ \E i \in 1..Len(content.parsed.items) :
                i <= 20 /\ content.parsed.items[i].type = "null"

\* The document is a non-empty array with an element that is no record.
NotAllRecords(content) ==
  /\ content.kind = "json"
  /\ content.parsed.type = "array"
  /\ \E i \in DOMAIN content.parsed.items :
       content.parsed.items[i].type # "object"

NoDataMarker(content) ==
  \A i \in DOMAIN LinesOf_(content) : toLowerCase(LinesOf_(content)[i]) # AtData

\* What holds of every preview call whatever the document.
RecoveredLocally(p) ==
  /\ ~input[p].exists => result[p] = NoPreview
  /\ input[p].file = TextFile => result[p] = NoPreview
  /\ (/\ input[p].exists
      /\ input[p].file = ArffFile
      /\ NoDataMarker(input[p].content)) => result[p] = EmptyPreview(p)
  /\ (input[p].exists /\ input[p].file # TextFile) =>
       result[p].returned = "preview"

C26_ReviewersAreCurators ==
  \A i \in DOMAIN curationReviews :
    /\ curationReviews[i].reviewer_id \in DOMAIN users
    /\ users[curationReviews[i].reviewer_id].role \in {"curator", "admin"}

\* C28: the contributor of every stored dataset is an existing user whose role
\* is now contributor, curator or admin.
C28_ContributorsMaySubmit ==
  \A i \in DOMAIN datasets :
    /\ datasets[i].contributor_id \in DOMAIN users
    /\ users[datasets[i].contributor_id].role \in
         {"contributor", "curator", "admin"}

\* C29: while reviews are filed and nothing else is called, no step takes a
\* dataset out of 'draft'.
C29_DraftStaysDraft ==
  [][\A p \in Procs :
       (input[p].op = "createCurationReview" /\ pc'[p] # pc[p]) =>
         \A i \in DOMAIN datasets :
           datasets[i].status = "draft" => datasets'[i].status = "draft"]_vars

\* ----- generateCitation
Cited(p) == pc[p] = "done" /\ input[p].op = "generateCitation"

\* A text column holds a text when it is neither null nor the empty text.
HasText(value) == value # Null /\ value # ""

\* The author of the claim: the name, else the address, else the placeholder.
AuthorOf(contributor_id) ==
  IF contributor_id \notin DOMAIN users THEN "Unknown Author"
    ELSE IF HasText(users[contributor_id].name) THEN users[contributor_id].name
    ELSE users[contributor_id].email

EndsWith(s, suffix) ==
  /\ Len(s) >= Len(suffix)
  /\ SubSeq(s, Len(s) - Len(suffix) + 1, Len(s)) = suffix

\* C24: the author of both citations is the contributor's name, else the
\* address, else 'Unknown Author' when there is no contributor row; with a
\* DOI the APA citation ends with the DOI link and '.', the IEEE citation
\* with ' [Online]. Available: ' and the DOI link; without a DOI both are
\* exactly the fixed templates with 'Unimus Repository.' and ' [Database]'.
C24_Citations ==
  \A p \in Procs :
    Cited(p) =>
      LET d == input[p].dataset
          author == AuthorOf(d.contributor_id)
          apa == result[p].apa
          ieee == result[p].ieee
      IN /\ apa[1] = author
         /\ ieee[1] = author
         /\ IF HasText(d.doi)
              THEN /\ EndsWith(apa, <<"https://doi.org/", d.doi, ".">>)
                   /\ EndsWith(ieee, <<" [Online]. Available: ",
                                       "https://doi.org/", d.doi>>)
              ELSE /\ apa = <<author, ". (", d.publication_year, "). ", d.title,
                              " [Dataset]. ", "Unimus Repository", ".">>
                   /\ ieee = <<author, ", \"", d.title, ",\" Dataset, ",
                               d.publication_year, ".", " [Database]">>

C24_Witness ==
  \E p \in Procs :
    /\ Cited(p)
    /\ input[p].dataset.contributor_id \in DOMAIN users
    /\ users[input[p].dataset.contributor_id].name = Null
    /\ input[p].dataset.doi = "10.1/x"
    /\ result[p].apa[1] = "a@x"

\* ----- authenticateUser
Authenticated(p) == pc[p] = "done" /\ input[p].op = "authenticateUser"

\* The stored password was derived from the plaintext by createUser or by
\* updateUser.
StoredFrom(stored, password) ==
  stored \in {bcryptHash(password), sha256Hash(password)}

\* C25: a login with the plaintext from which the stored password was derived
\* returns the user without the password, and a login with another plaintext
\* returns null.
C25_PasswordVerified ==
  \A p \in Procs :
    Authenticated(p) =>
      \A i \in existingUsers(input[p].email) :
        \A password \in Passwords :
          StoredFrom(users[i].password, password) =>
            IF input[p].password = password
              THEN result[p] = [returned |-> "user", email |-> users[i].email,
                                role |-> users[i].role, name |-> users[i].name]
              ELSE result[p] = [returned |-> "null"]

\* ----- failures
Failed(p) == pc[p] = "done" /\ result[p] \notin {"ok", "none"}

\* C27: when a call of a handler that writes ends with an error, the five
\* tables are as they were when the call started.
C27_FailureKeepsState ==
  \A p \in Procs : Failed(p) => tables = before

C27_Witness ==
  \E p \in Procs :
    /\ Failed(p)
    /\ input[p].op = "createCurationReview"
    /\ result[p] = "Conflict"
    /\ before.curationReviews # <<>>
    /\ before.datasets[input[p].dataset_id].status = "review"

\* ----- generateReports
Reported(p) == pc[p] = "done" /\ input[p].op = "generateReports"

\* The filters that agree with the given ones on start_year, end_year and
\* contributor_id.
SameBaseFilters(filters) ==
  {[filters EXCEPT !.profile_type = profile_type, !.department = department] :
     profile_type \in {Undefined, "lecturer", "student"},
     department \in {Undefined, "CS", "EE"}}

\* C22: the total and the counts by year of a report are those of every
\* report drawn from the same tables with the same start_year, end_year and
\* contributor_id, whatever its profile_type and department.
C22_BaseFiltersOnly ==
  \A p \in Procs :
    Reported(p) =>
      \A filters \in SameBaseFilters(input[p]) :
        /\ generateReports(filters).totalDatasets = result[p].totalDatasets
        /\ generateReports(filters).datasetsByYear = result[p].datasetsByYear

C22_Witness ==
  \E p \in Procs :
    /\ Reported(p)
    /\ input[p].profile_type = "student"
    /\ input[p].department = "EE"
    /\ result[p].totalDatasets = 2
    /\ Len(result[p].datasetsByYear) = 2
    /\ \A j \in DOMAIN profiles : profiles[j].type = "lecturer"

\* The datasets within the years and of the contributor of the filters whose
\* contributor has a student profile.
StudentDatasets(filters) ==
  {i \in DOMAIN datasets :
     /\ filters.start_year # <<>> => datasets[i].publication_year >= filters.start_year[1]
     /\ filters.end_year # <<>> => datasets[i].publication_year <= filters.end_year[1]
     /\ filters.contributor_id # <<>> =>
          datasets[i].contributor_id = filters.contributor_id[1]
     /\ \E j \in DOMAIN profiles : /\ profiles[j].user_id = datasets[i].contributor_id
                                   /\ profiles[j].type = "student"}

\* C23: studentInvolvement counts the datasets within the base filters whose
\* contributor has a student profile, and the distinct contributors of those
\* datasets, whatever profile_type and department the filters name.
C23_StudentInvolvement ==
  \A p \in Procs :
    Reported(p) =>
      result[p].studentInvolvement =
        [studentContributors |->
           Cardinality({datasets[i].contributor_id : i \in StudentDatasets(input[p])}),
         totalStudentDatasets |-> Cardinality(StudentDatasets(input[p]))]

\* ----- getDashboardStats
\* C30: in every snapshot returned, the published datasets and the datasets
\* in review together are at most the total, and so are the recent submissions.
C30_ConsistentSnapshot ==
  \A p \in Procs :
    (pc[p] = "done" /\ input[p].op = "getDashboardStats") =>
      /\ result[p].publishedDatasets + result[p].datasetsInReview
           <= result[p].totalDatasets
      /\ result[p].recentSubmissions <= result[p].totalDatasets
====
